---- MODULE Spec2Model ----
(***************************************************************************)
(* The two command-line programs of the repository, autocommit.py and      *)
(* ai_commit_gen.py, as one state machine.  A behaviour is one run of      *)
(* main(): the variable prog says which script runs, args holds the parsed *)
(* command line, pc is the position inside main(), and every call that     *)
(* leaves the process (environment, keyring, terminal, git, model API) is  *)
(* appended to trace in the order the code makes it.                       *)
(*                                                                         *)
(* Text the code handles character by character (keys, answers, model      *)
(* replies, commit logs) is a TLA+ string.  The staged diff can be longer  *)
(* than 120000 characters, so text that embeds it is a sequence of pieces: *)
(* a literal piece, or "the first n characters of the staged diff".        *)
(***************************************************************************)
EXTENDS Integers, Sequences, FiniteSets, TLC

VARIABLES
    prog,              \* which script runs: "autocommit" or "ai_commit_gen"
    args,              \* argparse result: [model, prompt, commit]
    pc,                \* position inside main()
    environ,           \* os.environ restricted to the API-key variables
    keyring,           \* the keyring store: <<service, username>> -> password
    staged,            \* length of the output of "git diff --staged --no-color"
    provider,          \* ai_commit_gen.py: result of get_provider
    api_key,           \* local api_key of main()
    openai_api_key,    \* autocommit.py: the module attribute openai.api_key
    git_diff,          \* local git_diff of main(), a text (sequence of pieces)
    char_limit,        \* autocommit.py: local char_limit of main()
    commit_messages,   \* ai_commit_gen.py: the list built by get_last_commits
    log_history,       \* the commit messages the last "git log" call reported
    messages,          \* the message list sent to the model
    requests,          \* completion calls made: [model, messages, api_base, ok]
    response_content,  \* local response_content of main()
    commit_argv,       \* argv of every "git commit" the run started
    trace,             \* external calls made so far, in order: [op, arg, val]
    exit_code          \* exit status once pc = "exited"

vars == <<prog, args, pc, environ, keyring, staged, provider, api_key,
          openai_api_key, git_diff, char_limit, commit_messages, log_history,
          messages, requests, response_content, commit_argv, trace, exit_code>>

(***************************************************************************)
(* Bounds of the model.                                                    *)
(***************************************************************************)
MaxParagraphs == 3  \* most paragraphs in a model reply
MaxCommits == 2     \* most commits in the repository history
MaxOver == 1        \* how far past a character budget a staged diff goes

(***************************************************************************)
(* Python's None.  Every string the model draws is over small alphabets    *)
(* that cannot spell this value.                                           *)
(***************************************************************************)
None == "<None>"

\* Characters str.strip() removes.
Whitespace == {" ", "\n", "\t"}

RECURSIVE lstrip(_)
lstrip(s) ==
    IF Len(s) > 0 /\ SubSeq(s, 1, 1) \in Whitespace
    THEN lstrip(SubSeq(s, 2, Len(s)))
    ELSE s

RECURSIVE rstrip(_)
rstrip(s) ==
    IF Len(s) > 0 /\ SubSeq(s, Len(s), Len(s)) \in Whitespace
    THEN rstrip(SubSeq(s, 1, Len(s) - 1))
    ELSE s

\* str.strip()
strip(s) == rstrip(lstrip(s))

\* str.startswith(prefix)
startswith(s, prefix) ==
    Len(s) >= Len(prefix) /\ SubSeq(s, 1, Len(prefix)) = prefix

\* str.lower() on one character of the answers the model draws.
LowerChar(c) ==
    CASE c = "Y" -> "y"
      [] c = "N" -> "n"
      [] c = "E" -> "e"
      [] c = "S" -> "s"
      [] OTHER -> c

\* str.lower()
RECURSIVE lower(_)
lower(s) ==
    IF Len(s) = 0 THEN ""
    ELSE LowerChar(SubSeq(s, 1, 1)) \o lower(SubSeq(s, 2, Len(s)))

\* Index of the first occurrence of sep in s at or after position i, 0 if none.
RECURSIVE FindFrom(_, _, _)
FindFrom(s, sep, i) ==
    IF i + Len(sep) - 1 > Len(s) THEN 0
    ELSE IF SubSeq(s, i, i + Len(sep) - 1) = sep THEN i
    ELSE FindFrom(s, sep, i + 1)

\* str.split(sep): the pieces between non-overlapping occurrences of sep,
\* scanning from the left; a string without sep is its own single piece.
RECURSIVE split(_, _)
split(s, sep) ==
    LET i == FindFrom(s, sep, 1)
    IN  IF i = 0 THEN <<s>>
        ELSE <<SubSeq(s, 1, i - 1)>> \o split(SubSeq(s, i + Len(sep), Len(s)), sep)

\* sep.join(parts)
RECURSIVE join(_, _)
join(sep, parts) ==
    IF Len(parts) = 0 THEN ""
    ELSE IF Len(parts) = 1 THEN parts[1]
    ELSE parts[1] \o sep \o join(sep, Tail(parts))

(***************************************************************************)
(* Texts that embed the staged diff.                                       *)
(***************************************************************************)
Lit(s) == [k |-> "lit", s |-> s, n |-> 0]
\* The first n characters of the output of the staged-diff command.
Diff(n) == [k |-> "diff", s |-> "", n |-> n]

PieceLen(p) == IF p.k = "lit" THEN Len(p.s) ELSE p.n

\* len(text)
RECURSIVE TextLen(_)
TextLen(t) == IF Len(t) = 0 THEN 0 ELSE PieceLen(Head(t)) + TextLen(Tail(t))

\* text[:n]
RECURSIVE Slice(_, _)
Slice(t, n) ==
    IF Len(t) = 0 \/ n <= 0 THEN <<>>
    ELSE LET p == Head(t)
         IN  IF PieceLen(p) <= n
             THEN <<p>> \o Slice(Tail(t), n - PieceLen(p))
             ELSE IF p.k = "lit"
                  THEN <<Lit(SubSeq(p.s, 1, n))>>
                  ELSE <<Diff(n)>>

(***************************************************************************)
(* The command line and the world the run starts in.                       *)
(***************************************************************************)
Programs == {"autocommit", "ai_commit_gen"}

\* Model identifiers given with -m: the three autocommit.py knows, one per
\* provider of ai_commit_gen.py, and one neither script knows.
Models == {"gpt-3.5-turbo", "gpt-4", "gpt-4-32k", "claude-2", "ollama/llama2", "llama2"}

\* Values of args.prompt.  argparse gives None (autocommit.py) or "default"
\* (ai_commit_gen.py) when -p is absent.
PromptArgs(p) ==
    IF p = "autocommit" THEN {None, "", "Summarise"}
    ELSE {"default", "mimic", "", "Summarise"}

EnvVars == {"OPENAI_KEY", "OPENAI_API_KEY", "ANTHROPIC_API_KEY"}

Accounts == {<<"autocommit", "openai_key">>,
             <<"ai_commit_gen", "openai_key">>,
             <<"ai_commit_gen", "anthropic_key">>}

\* The variables and keyring entries a script can look at; the others stay
\* unset, since no run reads them.
OwnEnvVars(p) ==
    IF p = "autocommit" THEN {"OPENAI_KEY"}
    ELSE {"OPENAI_API_KEY", "ANTHROPIC_API_KEY"}

OwnAccounts(p) == {a \in Accounts : a[1] = p}

\* API keys as they appear in the environment, the keyring or at the prompt:
\* empty, blank, plain, and padded with whitespace.
Keys == {"", " ", "k", " k "}

\* Answers typed at the "store one in the keyring? (y/n)" question.
Answers == {"y", "Y", "n", "", "yes"}

\* Character budgets of autocommit.py, the boundary values of the diff length.
Budgets == {12000, 25000, 120000}

\* Lengths of the staged diff: empty, tiny, and for autocommit.py at and
\* past every budget.
DiffLens(p) ==
    IF p = "autocommit"
    THEN {0, 1} \cup {b + d : b \in Budgets, d \in 0..MaxOver}
    ELSE 0..(1 + MaxOver)

\* The i-th paragraph of a reply.
Paragraph(i) == IF i = 1 THEN "Title" ELSE "Body line " \o ToString(i - 1)

\* Replies of the model: paragraphs separated by blank lines, such as
\* "Title\n\nBody line 1\n\nBody line 2".
Responses ==
    {join("\n\n", [i \in 1..k |-> Paragraph(i)]) : k \in 1..MaxParagraphs}

\* Raw commit messages (%B without the final newline): a title alone, and a
\* title with a body after a blank line.
CommitShapes == {"t", "t\n\nb"}

\* Repository histories, newest commit first.
Histories == UNION {[1..n -> CommitShapes] : n \in 1..MaxCommits}

\* Output of "git rev-parse --show-toplevel".
RootDirs == {"/w/repo\n"}

Min(a, b) == IF a <= b THEN a ELSE b

\* Output of git log -n num_commits --pretty=format:%B over a history: each
\* raw message ends with a newline and entries are separated by a newline.
GitLogOutput(num_commits, history) ==
    join("\n", [i \in 1..Min(num_commits, Len(history)) |-> history[i] \o "\n"])

\* os.path.basename
RECURSIVE basename(_)
basename(path) ==
    LET i == FindFrom(path, "/", 1)
    IN  IF i = 0 THEN path ELSE basename(SubSeq(path, i + 1, Len(path)))

Ev(op, arg, val) == [op |-> op, arg |-> arg, val |-> val]

Init ==
    /\ prog \in Programs
    /\ \E m \in Models, c \in BOOLEAN :
         \E p \in PromptArgs(prog) :
            args = [model |-> m, prompt |-> p, commit |-> c]
    /\ \E v \in OwnEnvVars(prog), k \in Keys \cup {None} :
         environ = [x \in EnvVars |-> IF x = v THEN k ELSE None]
    /\ \E a \in OwnAccounts(prog), k \in Keys \cup {None} :
         keyring = [x \in Accounts |-> IF x = a THEN k ELSE None]
    /\ staged \in DiffLens(prog)
    /\ pc = IF prog = "autocommit" THEN "getenv" ELSE "get_provider"
    /\ provider = None
    /\ api_key = None
    /\ openai_api_key = None
    /\ git_diff = <<>>
    /\ char_limit = 0
    /\ commit_messages = <<>>
    /\ log_history = <<>>
    /\ messages = <<>>
    /\ requests = <<>>
    /\ response_content = None
    /\ commit_argv = <<>>
    /\ trace = <<>>
    /\ exit_code = -1

\* sys.exit(code), or main() returning (code 0) or an uncaught exception (1).
Exit(code) ==
    /\ pc' = "exited"
    /\ exit_code' = code

(***************************************************************************)
(* Provider inference (ai_commit_gen.py).                                  *)
(***************************************************************************)
\* get_provider: the provider name, or None where the code prints
\* "Invalid model" and exits.
get_provider(model) ==
    IF startswith(model, "gpt") THEN "openai"
    ELSE IF startswith(model, "claude") THEN "anthropic"
    ELSE IF startswith(model, "ollama/") THEN "ollama"
    ELSE None

\* Mutant: credential resolution runs for the local provider too.
NeedsCredential_Always(p) == TRUE

\* The line  if provider != "ollama":  guarding credential resolution.
NeedsCredential(p) == p # "ollama"

GetProvider ==
    /\ pc = "get_provider"
    /\ LET p == get_provider(args.model)
       IN  IF p = None
           THEN /\ trace' = Append(trace, Ev("print", "Invalid model", args.model))
                /\ Exit(1)
                /\ UNCHANGED provider
           ELSE /\ provider' = p
                /\ pc' = IF NeedsCredential(p) THEN "getenv" ELSE "git_diff"
                /\ UNCHANGED <<trace, exit_code>>
    /\ UNCHANGED <<prog, args, environ, keyring, staged, api_key, openai_api_key,
                   git_diff, char_limit, commit_messages, log_history, messages,
                   requests, response_content, commit_argv>>

(***************************************************************************)
(* Credential resolution (both scripts).                                   *)
(***************************************************************************)
\* The environment variable holding the key.
EnvVar ==
    IF prog = "autocommit" THEN "OPENAI_KEY"
    ELSE IF provider = "openai" THEN "OPENAI_API_KEY" ELSE "ANTHROPIC_API_KEY"

\* The keyring entry holding the key.
Account ==
    IF prog = "autocommit" THEN <<"autocommit", "openai_key">>
    ELSE <<"ai_commit_gen", provider \o "_key">>

\* Mutant: the lookup result is ignored and the next source is consulted.
KeyMissing_Always(k) == TRUE

\* The test  api_key is None  after a lookup.
KeyMissing(k) == k = None

\* api_key = os.getenv(...)
GetEnv ==
    /\ pc = "getenv"
    /\ api_key' = environ[EnvVar]
    /\ trace' = Append(trace, Ev("getenv", EnvVar, environ[EnvVar]))
    /\ pc' = IF KeyMissing(environ[EnvVar]) THEN "keyring_get" ELSE "set_key"
    /\ UNCHANGED <<prog, args, environ, keyring, staged, provider, openai_api_key,
                   git_diff, char_limit, commit_messages, log_history, messages,
                   requests, response_content, commit_argv, exit_code>>

\* api_key = keyring.get_password(...)
KeyringGet ==
    /\ pc = "keyring_get"
    /\ api_key' = keyring[Account]
    /\ trace' = Append(trace, Ev("keyring_get", Account[2], keyring[Account]))
    /\ pc' = IF KeyMissing(keyring[Account]) THEN "ask" ELSE "set_key"
    /\ UNCHANGED <<prog, args, environ, keyring, staged, provider, openai_api_key,
                   git_diff, char_limit, commit_messages, log_history, messages,
                   requests, response_content, commit_argv, exit_code>>

\* The test  store_in_keyring.lower() == "y".
Accepts(answer) == lower(answer) = "y"

\* store_in_keyring = input(...), and the else branch that gives up.
AskStore ==
    /\ pc = "ask"
    /\ \E answer \in Answers :
         IF Accepts(answer)
         THEN /\ trace' = Append(trace, Ev("input", "store?", answer))
              /\ pc' = "getpass"
              /\ UNCHANGED exit_code
         ELSE /\ trace' = trace \o <<Ev("input", "store?", answer),
                                     Ev("print", "No API key provided", "")>>
              /\ Exit(1)
    /\ UNCHANGED <<prog, args, environ, keyring, staged, provider, api_key,
                   openai_api_key, git_diff, char_limit, commit_messages,
                   log_history, messages, requests, response_content, commit_argv>>

\* api_key = getpass.getpass(...); keyring.set_password(..., api_key)
GetPass ==
    /\ pc = "getpass"
    /\ \E typed \in Keys :
         /\ api_key' = typed
         /\ keyring' = [keyring EXCEPT ![Account] = typed]
         /\ trace' = trace \o <<Ev("getpass", "key", typed),
                                 Ev("keyring_set", Account[2], typed)>>
    /\ pc' = "set_key"
    /\ UNCHANGED <<prog, args, environ, staged, provider, openai_api_key,
                   git_diff, char_limit, commit_messages, log_history, messages,
                   requests, response_content, commit_argv, exit_code>>

\* autocommit.py:    openai.api_key = api_key
\* ai_commit_gen.py: os.environ[env_var] = api_key.strip()
SetKey ==
    /\ pc = "set_key"
    /\ IF prog = "autocommit"
       THEN /\ openai_api_key' = api_key
            /\ UNCHANGED environ
       ELSE /\ environ' = [environ EXCEPT ![EnvVar] = strip(api_key)]
            /\ UNCHANGED openai_api_key
    /\ pc' = "git_diff"
    /\ UNCHANGED <<prog, args, keyring, staged, provider, api_key, git_diff,
                   char_limit, commit_messages, log_history, messages, requests,
                   response_content, commit_argv, trace, exit_code>>

\* The key the completion call will authenticate with.
EffectiveKey ==
    IF prog = "autocommit" THEN openai_api_key ELSE environ[EnvVar]

(***************************************************************************)
(* Diff collection and the size budget.                                    *)
(***************************************************************************)
\* git_diff = os.popen("git diff --staged --no-color").read()
GitDiff ==
    /\ pc = "git_diff"
    /\ git_diff' = IF staged = 0 THEN <<>> ELSE <<Diff(staged)>>
    /\ trace' = Append(trace, Ev("git_diff", "--staged", ToString(staged)))
    /\ pc' = IF prog = "autocommit" THEN "char_limit" ELSE "check_empty"
    /\ UNCHANGED <<prog, args, environ, keyring, staged, provider, api_key,
                   openai_api_key, char_limit, commit_messages, log_history,
                   messages, requests, response_content, commit_argv, exit_code>>

\* get_character_limit: the budget, or 0 where the code prints
\* "Invalid model" and exits.
get_character_limit(model) ==
    IF model = "gpt-3.5-turbo" THEN 12000
    ELSE IF model = "gpt-4" THEN 25000
    ELSE IF model = "gpt-4-32k" THEN 120000
    ELSE 0

\* char_limit = get_character_limit(args.model)
CharLimit ==
    /\ pc = "char_limit"
    /\ LET limit == get_character_limit(args.model)
       IN  IF limit = 0
           THEN /\ trace' = Append(trace, Ev("print", "Invalid model", args.model))
                /\ Exit(1)
                /\ UNCHANGED char_limit
           ELSE /\ char_limit' = limit
                /\ pc' = "check_empty"
                /\ UNCHANGED <<trace, exit_code>>
    /\ UNCHANGED <<prog, args, environ, keyring, staged, provider, api_key,
                   openai_api_key, git_diff, commit_messages, log_history,
                   messages, requests, response_content, commit_argv>>

\* Mutant: the emptiness test never succeeds.
IsEmpty_Never(text) == FALSE

\* The test  not git_diff.
IsEmpty(text) == TextLen(text) = 0

\* if not git_diff: print("No changes to commit."); sys.exit(0)
CheckEmpty ==
    /\ pc = "check_empty"
    /\ IF IsEmpty(git_diff)
       THEN /\ trace' = Append(trace, Ev("print", "No changes to commit.", ""))
            /\ Exit(0)
       ELSE /\ pc' = IF prog = "autocommit" THEN "truncate" ELSE "build_prompt"
            /\ UNCHANGED <<trace, exit_code>>
    /\ UNCHANGED <<prog, args, environ, keyring, staged, provider, api_key,
                   openai_api_key, git_diff, char_limit, commit_messages,
                   log_history, messages, requests, response_content, commit_argv>>

\* The marker  f" (cut off at {char_limit} characters)."
Marker(limit) == Lit(" (cut off at " \o ToString(limit) \o " characters).")

\* Mutant: the slice keeps one character too many.
Truncated_OffByOne(text, limit) ==
    IF TextLen(text) > limit
    THEN Slice(text, limit + 1) \o <<Marker(limit)>>
    ELSE text

\* if len(git_diff) > char_limit: git_diff = git_diff[:char_limit] + marker
Truncated(text, limit) ==
    IF TextLen(text) > limit
    THEN Slice(text, limit) \o <<Marker(limit)>>
    ELSE text

Truncate ==
    /\ pc = "truncate"
    /\ git_diff' = Truncated(git_diff, char_limit)
    /\ pc' = "build_prompt"
    /\ UNCHANGED <<prog, args, environ, keyring, staged, provider, api_key,
                   openai_api_key, char_limit, commit_messages, log_history,
                   messages, requests, response_content, commit_argv, trace,
                   exit_code>>

(***************************************************************************)
(* Prompt construction.                                                    *)
(***************************************************************************)
SystemMessage == [role |-> "system", content |-> <<Lit("You are a helpful assistant.")>>]

\* Results of a git subprocess: its output, or None when it exits non-zero
\* (subprocess.CalledProcessError).
RootDirResults == RootDirs \cup {None}
LogResults ==
    {[ok |-> TRUE, history |-> h] : h \in Histories}
        \cup {[ok |-> FALSE, history |-> <<>>]}

\* autocommit.py get_root_dir_name: check_output returns bytes, so the
\* f-string renders the basename as b'...'.
get_root_dir_name(result) ==
    IF result = None THEN ""
    ELSE "Repository root dir: b'" \o basename(strip(result)) \o "'\n\n"

\* autocommit.py get_last_commits(num_commits=3)
get_last_commits_raw(result) ==
    IF ~result.ok THEN ""
    ELSE "Recent commits:\n" \o GitLogOutput(3, result.history) \o "\n\n"

\* ai_commit_gen.py get_last_commits, lines 30-42: the output split on blank
\* lines, each piece prefixed with "Example <i+1> - ".
Exemplars(output) ==
    LET pieces == split(output, "\n\n")
    IN  [i \in 1..Len(pieces) |-> "Example " \o ToString(i) \o " - " \o pieces[i]]

\* ai_commit_gen.py get_last_commits(num_commits=5), the returned string.
get_last_commits(result) ==
    IF ~result.ok THEN ""
    ELSE "Recent commits:\n"
         \o join("\n\n", Exemplars(GitLogOutput(5, result.history))) \o "\n\n"

\* ai_commit_gen.py: the prompts dictionary, each entry called.
IsPreset(name) == name \in {"default", "oneliner", "refactoring", "documentation", "mimic"}

Preset(name, last_commits) ==
    CASE name = "default" ->
           "As your response, please provide a concise git commit message for the changes described below.\n"
           \o "The first paragraph of your response should be a single short line less than 50 characters. \n"
           \o "Add more paragraphs that describe the changes in more detail only if necessary. Prefer to use bullet lists instead of long paragraphs."
      [] name = "oneliner" ->
           "Please provide a one-liner git commit message for the changes described below. Your response will be used as the commit message."
      [] name = "refactoring" ->
           "Please provide a detailed git commit message that explains the refactoring changes described below. Please detail every major change as a separate bullet point. Your response will be used as the commit message."
      [] name = "documentation" ->
           "Please provide a git commit message that explains the documentation changes described below."
      [] name = "mimic" ->
           "Please provide a git commit message for the changes described below. Your message should closely mimic the style and structure of the following recent git commit messages in this repository: \n"
           \o last_commits

\* autocommit.py: the default prompt, lines 100-110.
DefaultPrompt(root_dir_name, last_commits, diff) ==
    <<Lit("As your response, please provide a concise git commit message for the changes described below.\n\n"
          \o "The first paragraph of your response should be a single short line to serve as the title of the commit. \n\n"
          \o "Add more paragraphs that describe the changes in more detail only if necessary. Prefer to use bullet lists instead of long paragraphs.\n\n"
          \o root_dir_name \o last_commits
          \o "\n\nOutput of \"git diff --staged\": \n")>>
    \o diff \o <<Lit("\n")>>

\* autocommit.py: the test  args.prompt  choosing the literal prompt.
UsesLiteral(prompt) == prompt # None /\ prompt # ""

\* autocommit.py: prompt = args.prompt if args.prompt else f"""..."""
BuildPromptAutocommit ==
    /\ pc = "build_prompt"
    /\ prog = "autocommit"
    /\ IF UsesLiteral(args.prompt)
       THEN /\ messages' = <<SystemMessage,
                             [role |-> "user", content |-> <<Lit(args.prompt)>>]>>
            /\ UNCHANGED <<trace, log_history>>
       ELSE \E root \in RootDirResults, log \in LogResults :
              /\ messages' = <<SystemMessage,
                               [role |-> "user",
                                content |-> DefaultPrompt(get_root_dir_name(root),
                                                          get_last_commits_raw(log),
                                                          git_diff)]>>
              /\ trace' = trace \o
                   <<Ev("git_rev_parse", "--show-toplevel", IF root = None THEN "fail" ELSE "ok"),
                     Ev("git_log", "3", IF log.ok THEN "ok" ELSE "fail")>>
              /\ log_history' = log.history
    /\ pc' = "complete"
    /\ UNCHANGED <<prog, args, environ, keyring, staged, provider, api_key,
                   openai_api_key, git_diff, char_limit, commit_messages,
                   requests, response_content, commit_argv, exit_code>>

\* ai_commit_gen.py: the user message, lines 129-133.
UserMessage(prompt, diff) ==
    <<Lit(prompt \o "\n\nOutput of \"git diff --staged\": \n")>> \o diff \o <<Lit("\n")>>

\* ai_commit_gen.py: prompt selection for a preset that makes no git call,
\* or for a literal prompt (an empty one falls back to the default preset).
PlainPrompt(name) ==
    IF IsPreset(name) THEN Preset(name, "")
    ELSE IF name # "" THEN name ELSE Preset("default", "")

BuildPromptPlain ==
    /\ pc = "build_prompt"
    /\ prog = "ai_commit_gen"
    /\ args.prompt # "mimic"
    /\ messages' = <<SystemMessage,
                     [role |-> "user",
                      content |-> UserMessage(PlainPrompt(args.prompt), git_diff)]>>
    /\ pc' = "trim"
    /\ UNCHANGED <<prog, args, environ, keyring, staged, provider, api_key,
                   openai_api_key, git_diff, char_limit, commit_messages,
                   log_history, requests, response_content, commit_argv, trace,
                   exit_code>>

\* ai_commit_gen.py: the "mimic" preset, which calls get_last_commits().
BuildPromptMimic ==
    /\ pc = "build_prompt"
    /\ prog = "ai_commit_gen"
    /\ args.prompt = "mimic"
    /\ \E log \in LogResults :
         /\ messages' = <<SystemMessage,
                          [role |-> "user",
                           content |-> UserMessage(Preset("mimic", get_last_commits(log)),
                                                   git_diff)]>>
         /\ commit_messages' = IF log.ok
                               THEN Exemplars(GitLogOutput(5, log.history))
                               ELSE <<>>
         /\ log_history' = log.history
         /\ trace' = Append(trace, Ev("git_log", "5", IF log.ok THEN "ok" ELSE "fail"))
    /\ pc' = "trim"
    /\ UNCHANGED <<prog, args, environ, keyring, staged, provider, api_key,
                   openai_api_key, git_diff, char_limit, requests,
                   response_content, commit_argv, exit_code>>

(***************************************************************************)
(* Model dispatch.                                                         *)
(***************************************************************************)
\* What litellm.trim_messages may do to a user message that does not fit the
\* model's context: the library's own shortened rendering of it.
TrimmedContent == <<[k |-> "trimmed", s |-> "", n |-> 0]>>

\* ai_commit_gen.py: messages = trim_messages(messages, args.model).  The
\* library either returns the list as it is or shortens the user message.
TrimMessages ==
    /\ pc = "trim"
    /\ \E fits \in BOOLEAN :
         messages' = IF fits THEN messages
                     ELSE <<messages[1], [role |-> "user", content |-> TrimmedContent]>>
    /\ pc' = "complete"
    /\ UNCHANGED <<prog, args, environ, keyring, staged, provider, api_key,
                   openai_api_key, git_diff, char_limit, commit_messages,
                   log_history, requests, response_content, commit_argv, trace,
                   exit_code>>

\* ai_commit_gen.py: api_base="http://localhost:11434" if provider == "ollama" else None
ApiBase(p) == IF p = "ollama" THEN "http://localhost:11434" ELSE None

\* The request of the completion call of either script.
Request ==
    [model |-> args.model,
     messages |-> messages,
     api_base |-> IF prog = "autocommit" THEN None ELSE ApiBase(provider)]

\* The completion call returns a response; response_content is its text.
CompletionReturns ==
    /\ pc = "complete"
    /\ \E r \in Responses :
         /\ response_content' = r
         /\ trace' = Append(trace, Ev("completion", args.model, "ok"))
    /\ requests' = Append(requests, Request)
    /\ pc' = "sink"
    /\ UNCHANGED <<prog, args, environ, keyring, staged, provider, api_key,
                   openai_api_key, git_diff, char_limit, commit_messages,
                   log_history, messages, commit_argv, exit_code>>

\* Mutant: the exception is logged and swallowed, and main() goes on.
CompletionFails_Swallowed ==
    /\ pc = "complete"
    /\ requests' = Append(requests, Request)
    /\ trace' = Append(trace, Ev("completion", args.model, "error"))
    /\ response_content' = ""
    /\ pc' = "sink"
    /\ UNCHANGED <<prog, args, environ, keyring, staged, provider, api_key,
                   openai_api_key, git_diff, char_limit, commit_messages,
                   log_history, messages, commit_argv, exit_code>>

\* The completion call raises: except Exception: logging.debug(...); sys.exit(1)
CompletionFails ==
    /\ pc = "complete"
    /\ requests' = Append(requests, Request)
    /\ trace' = Append(trace, Ev("completion", args.model, "error"))
    /\ Exit(1)
    /\ UNCHANGED <<prog, args, environ, keyring, staged, provider, api_key,
                   openai_api_key, git_diff, char_limit, commit_messages,
                   log_history, messages, response_content, commit_argv>>

(***************************************************************************)
(* Output.                                                                 *)
(***************************************************************************)
\* commit_message = [("-m " + p) for p in response_content.split("\n\n")]
CommitMessage(response) ==
    LET paragraphs == split(response, "\n\n")
    IN  [i \in 1..Len(paragraphs) |-> "-m " \o paragraphs[i]]

\* subprocess.run(["git", "commit"] + commit_message, check=True): the
\* process ends with 0 when git succeeds, and with 1 on the uncaught
\* CalledProcessError when it does not.
Commit ==
    /\ pc = "sink"
    /\ args.commit
    /\ commit_argv' = Append(commit_argv, <<"git", "commit">> \o CommitMessage(response_content))
    /\ \E ok \in BOOLEAN :
         /\ trace' = Append(trace, Ev("git_commit", "", IF ok THEN "ok" ELSE "fail"))
         /\ Exit(IF ok THEN 0 ELSE 1)
    /\ UNCHANGED <<prog, args, environ, keyring, staged, provider, api_key,
                   openai_api_key, git_diff, char_limit, commit_messages,
                   log_history, messages, requests, response_content>>

\* print(response_content)
PrintResponse ==
    /\ pc = "sink"
    /\ ~args.commit
    /\ trace' = Append(trace, Ev("print", "response", response_content))
    /\ Exit(0)
    /\ UNCHANGED <<prog, args, environ, keyring, staged, provider, api_key,
                   openai_api_key, git_diff, char_limit, commit_messages,
                   log_history, messages, requests, response_content, commit_argv>>

Next ==
    \/ GetProvider
    \/ GetEnv
    \/ KeyringGet
    \/ AskStore
    \/ GetPass
    \/ SetKey
    \/ GitDiff
    \/ CharLimit
    \/ CheckEmpty
    \/ Truncate
    \/ BuildPromptAutocommit
    \/ BuildPromptPlain
    \/ BuildPromptMimic
    \/ TrimMessages
    \/ CompletionReturns
    \/ CompletionFails
    \/ Commit
    \/ PrintResponse

Spec == Init /\ [][Next]_vars

(***************************************************************************)
(* Vocabulary of the properties.                                           *)
(***************************************************************************)
\* The run has made an external call of this kind.
Did(op) == \E i \in 1..Len(trace) : trace[i].op = op

\* The run has made this call with this result.
DidWith(op, val) == \E i \in 1..Len(trace) : trace[i].op = op /\ trace[i].val = val

\* The run has printed this message.
Printed(msg) == \E i \in 1..Len(trace) : trace[i].op = "print" /\ trace[i].arg = msg

\* The steps of credential resolution.
CredentialOps == {"getenv", "keyring_get", "keyring_set", "input", "getpass"}

\* The model identifier is one the running script recognises.
Recognised ==
    IF prog = "autocommit"
    THEN args.model \in {"gpt-3.5-turbo", "gpt-4", "gpt-4-32k"}
    ELSE \E prefix \in {"gpt", "claude", "ollama/"} : startswith(args.model, prefix)

\* sub occurs in s.
Contains(s, sub) == FindFrom(s, sub, 1) # 0

\* The pieces of part occur in text, contiguously and in order.
Embeds(text, part) ==
    \E i \in 0..(Len(text) - Len(part)) :
        \A j \in 1..Len(part) : text[i + j] = part[j]

\* The content of the user message of the completion call that was made.
SentPrompt == requests[1].messages[2].content

\* The character budget the specification gives for a model identifier.
Budget(model) ==
    CASE model = "gpt-3.5-turbo" -> 12000
      [] model = "gpt-4" -> 25000
      [] model = "gpt-4-32k" -> 120000

\* The truncation marker naming the budget b.
MarkerFor(b) == Lit(" (cut off at " \o ToString(b) \o " characters).")

\* C1: a run started with a model identifier the script does not recognise
\* makes no completion call and no credential resolution step, and exits
\* with status 1.
C1_UnrecognisedModel ==
    ~Recognised =>
        /\ ~Did("completion")
        /\ \A op \in CredentialOps : ~Did(op)
        /\ pc = "exited" => exit_code = 1

\* C2 as stated: with no staged changes every run ends with status 0 and
\* makes no completion call.
C2_Original ==
    (staged = 0 /\ pc = "exited") => (exit_code = 0 /\ ~Did("completion"))

\* C2 as amended: with no staged changes no run makes a completion call; the
\* run ends with status 0 and the message "No changes to commit." when the
\* model identifier is recognised and credential resolution did not end the
\* run, and with status 1 otherwise.
C2_EmptyDiff ==
    staged = 0 =>
        /\ ~Did("completion")
        /\ requests = <<>>
        /\ pc = "exited" =>
              IF Recognised /\ ~Printed("No API key provided")
              THEN exit_code = 0 /\ Printed("No changes to commit.")
              ELSE exit_code = 1

\* Witness of C2: a run with nothing staged reaches the emptiness test and
\* ends there with status 0.
C2_Witness ==
    /\ staged = 0
    /\ pc = "exited"
    /\ exit_code = 0
    /\ Printed("No changes to commit.")
    /\ Did("git_diff")

\* C3: once credential resolution for a hosted provider is over and the run
\* goes on, the API key in use is a non-empty string.
C3_NonEmptyKey ==
    (pc = "git_diff" /\ Did("getenv")) => (EffectiveKey # None /\ EffectiveKey # "")

\* The provider's API-key environment variable is set in this run.
EnvKeySet ==
    \/ \E i \in 1..Len(trace) : trace[i].op = "getenv" /\ trace[i].val # None
    \/ pc \in {"getenv", "keyring_get", "ask", "getpass"} /\ environ[EnvVar] # None

\* C4: in a run in which the provider's API-key environment variable is set,
\* the keyring is neither read nor written and the user is not prompted.
C4_EnvKeySkipsKeyring ==
    EnvKeySet =>
        /\ ~Did("keyring_get")
        /\ ~Did("keyring_set")
        /\ ~Did("input")
        /\ ~Did("getpass")

\* Witness of C4: a run that found the key in the environment, with a
\* keyring entry present, completes with status 0.
C4_Witness ==
    /\ \E i \in 1..Len(trace) : trace[i].op = "getenv" /\ trace[i].val = "k"
    /\ \E a \in Accounts : keyring[a] # None
    /\ DidWith("completion", "ok")
    /\ pc = "exited"
    /\ exit_code = 0

\* C5: in ai_commit_gen.py a model identifier with the prefix "ollama/" leads
\* to no credential resolution step and no exit for a missing key, and its
\* completion call goes to http://localhost:11434; the completion call of
\* every other recognised provider carries no endpoint override.
C5_LocalProvider ==
    prog = "ai_commit_gen" =>
        /\ startswith(args.model, "ollama/") =>
              /\ \A op \in CredentialOps : ~Did(op)
              /\ ~Printed("No API key provided")
              /\ \A i \in 1..Len(requests) :
                    requests[i].api_base = "http://localhost:11434"
        /\ (startswith(args.model, "gpt") \/ startswith(args.model, "claude")) =>
              \A i \in 1..Len(requests) : requests[i].api_base = None

\* Witness of C5: a run for the local provider has made its completion call
\* and ended with status 0.
C5_Witness ==
    /\ prog = "ai_commit_gen"
    /\ args.model = "ollama/llama2"
    /\ Len(requests) = 1
    /\ requests[1].api_base = "http://localhost:11434"
    /\ pc = "exited"
    /\ exit_code = 0

\* The paragraphs a reply of the model consists of.
ParagraphsOf(response) ==
    CHOOSE ps \in {[i \in 1..k |-> Paragraph(i)] : k \in 1..(MaxParagraphs + 1)} :
        join("\n\n", ps) = response

\* The value git takes from one argv word that starts with the short option
\* -m: the rest of the word.
OptionValue(word) == SubSeq(word, 3, Len(word))

\* C6: with the commit flag set and a reply of k paragraphs, git commit gets
\* exactly k -m arguments whose message values are those paragraphs in order.
C6_CommitArguments ==
    \A c \in 1..Len(commit_argv) :
        LET argv == commit_argv[c]
            ps == ParagraphsOf(response_content)
        IN  /\ Len(argv) = 2 + Len(ps)
            /\ \A i \in 1..Len(ps) :
                  /\ startswith(argv[2 + i], "-m")
                  /\ OptionValue(argv[2 + i]) = ps[i]

\* C7: in autocommit.py, for a recognised model and a non-empty staged diff
\* within the model's budget, the user message sent to the model contains
\* the whole diff and no truncation marker, whatever the prompt option.
C7_DiffVerbatim ==
    (/\ prog = "autocommit"
     /\ Len(requests) > 0
     /\ staged <= Budget(args.model)) =>
        /\ Embeds(SentPrompt, <<Diff(staged)>>)
        /\ \A b \in Budgets : ~Embeds(SentPrompt, <<MarkerFor(b)>>)

\* C8 as stated: in autocommit.py, for a staged diff longer than the model's
\* budget B, the final prompt is at most B plus the marker's length long and
\* carries the marker naming B after the first B characters of the diff.
C8_Original ==
    (/\ prog = "autocommit"
     /\ Len(requests) > 0
     /\ staged > Budget(args.model)) =>
        LET b == Budget(args.model)
        IN  /\ TextLen(SentPrompt) <= b + PieceLen(MarkerFor(b))
            /\ Embeds(SentPrompt, <<Diff(b), MarkerFor(b)>>)

\* autocommit.py has passed the truncation step.
PastTruncation ==
    \/ pc \in {"build_prompt", "complete", "sink"}
    \/ pc = "exited" /\ Len(requests) > 0

\* C8 as amended: in autocommit.py, for a staged diff longer than the
\* model's budget B, the diff text prepared for the prompt is the first B
\* characters of the diff followed by the marker naming exactly B, so its
\* length is B plus the marker's length; the prompt built when no literal
\* prompt is given contains that text whole and is longer than it, and a
\* prompt that carries any of the diff carries that text.
C8_TruncatedDiff ==
    (/\ prog = "autocommit"
     /\ Recognised
     /\ PastTruncation
     /\ staged > Budget(args.model)) =>
        LET b == Budget(args.model)
        IN  /\ git_diff = <<Diff(b), MarkerFor(b)>>
            /\ TextLen(git_diff) = b + PieceLen(MarkerFor(b))
            /\ Len(requests) > 0 =>
                  /\ (args.prompt \in {None, ""}) =>
                        /\ Embeds(SentPrompt, git_diff)
                        /\ TextLen(SentPrompt) > TextLen(git_diff)
                  /\ (\E i \in 1..Len(SentPrompt) : SentPrompt[i].k = "diff") =>
                        Embeds(SentPrompt, git_diff)

\* Witness of C8: an over-budget diff was truncated and sent under the
\* default prompt.
C8_Witness ==
    /\ prog = "autocommit"
    /\ args.model = "gpt-4"
    /\ staged = 25001
    /\ args.prompt = None
    /\ Len(requests) = 1
    /\ Embeds(SentPrompt, <<Diff(25000), MarkerFor(25000)>>)

\* C9: the completion call is made at most once in a run, and when it raises
\* the process exits at once with status 1: nothing is printed and git commit
\* is not started afterwards, with or without the commit flag.
C9_NoRetry ==
    /\ Len(requests) <= 1
    /\ DidWith("completion", "error") =>
          /\ pc = "exited"
          /\ exit_code = 1
          /\ trace[Len(trace)].op = "completion"
          /\ ~Printed("response")
          /\ ~Did("git_commit")
          /\ commit_argv = <<>>

\* Witness of C9: the completion call raised in a run with the commit flag.
C9_Witness ==
    /\ DidWith("completion", "error")
    /\ args.commit
    /\ pc = "exited"

\* C10: in ai_commit_gen.py with the "mimic" preset, when git log reports N
\* commits the prompt embeds exactly N exemplars, the k-th labelled
\* "Example k" and containing the whole raw message of the k-th commit.
C10_MimicExemplars ==
    (/\ prog = "ai_commit_gen"
     /\ args.prompt = "mimic"
     /\ DidWith("git_log", "ok")) =>
        /\ Len(commit_messages) = Len(log_history)
        /\ \A k \in 1..Len(log_history) :
              /\ k <= Len(commit_messages)
              /\ startswith(commit_messages[k], "Example " \o ToString(k) \o " ")
              /\ Contains(commit_messages[k], log_history[k])
====
